---- MODULE Spec2Model ----
(***************************************************************************)
(* The scheduler poller of SentrAIX/scheduler (index.ts): a credential     *)
(* provider with a token cache, an axios request interceptor, three        *)
(* operations wrapped in p-retry, the billing and the scheduling cycle,    *)
(* and start(), which runs both cycles once and then registers one         *)
(* interval timer per cycle.                                               *)
(*                                                                         *)
(* One action is one event-loop task: everything the code runs between     *)
(* two awaits that wait for I/O or for a timer.                            *)
(***************************************************************************)
EXTENDS Integers, Sequences, FiniteSets, TLC

-----------------------------------------------------------------------------
(* Bounds of the model *)

\* Date.now() advances at most this many clock steps
MaxTicks == 1
\* longest due list the API returns
MaxDue == 3
\* invocation slots: cycle invocations that can be in flight at once
MaxInvocations == 2

-----------------------------------------------------------------------------
(* Program constants *)

\* expiresIn default: (resp.data.expires_in || 300)
DefaultExpiresIn == 300
\* accessTokenExpiresAt = Date.now() + expiresIn * 1000 - 30000
ExpirySkewMs == 30000
\* one retry more
processPendingRetries_Four == 3 + 1
\* pRetry(..., { retries: 3 }) in processPending
processPendingRetries == 3
\* one retry only
fetchDueSchedulesRetries_One == 2 - 1
\* pRetry(..., { retries: 2 }) in fetchDueSchedules
fetchDueSchedulesRetries == 2
\* one retry more
triggerScheduleRetries_Three == 2 + 1
\* pRetry(..., { retries: 2 }) in triggerSchedule
triggerScheduleRetries == 2

\* granularity of the modelled wall clock
ClockStepMs == ExpirySkewMs

-----------------------------------------------------------------------------
(* Values *)

\* accessToken = null
Null == "null"
\* the configured static key
StaticKey == "static-key"
\* expires_in values of a token response; <<>> is a response without the field
ExpiresInValues == {<<>>, <<0>>, <<60>>, <<300>>}
\* a schedule item of the due list: { id, nextRunAt }
Item(i) == [id |-> i, nextRunAt |-> IF i = "r1" THEN "at1" ELSE "at2"]
\* the longest due list the API answers with: r1, r2, r1, ...
FullDueList == [k \in 1..MaxDue |-> Item(IF k % 2 = 1 THEN "r1" ELSE "r2")]
\* the configured pairs <<POLL_INTERVAL_BILLING_SECONDS, POLL_INTERVAL_SCHEDULER_SECONDS>>
IntervalConfigs == {<<60, 30>>}

Cycles == {"billing", "sched"}
Slots == 1..MaxInvocations

\* bodies of a 2xx answer of GET /scheduling/due: the empty list, the full
\* list, null, or a value that is not iterable
DueBodies ==
    {[kind |-> "list", items |-> l] : l \in {<<>>, FullDueList}}
        \cup {[kind |-> "null", items |-> <<>>], [kind |-> "object", items |-> <<>>]}

-----------------------------------------------------------------------------
(* State *)

VARIABLES
    API_KEY,               \* process.env.API_KEY || ''
    KEYCLOAK,              \* the four KEYCLOAK_* settings, '' when unset
    POLL_INTERVAL,         \* seconds between two ticks, per cycle
    warned,                \* the startup warning was written
    accessToken,           \* the token cache
    accessTokenExpiresAt,
    now,                   \* Date.now(), in ms since the process started
    proc,                  \* where start() is: "starting", "firstRun", "polling", "exited"
    timerLeft,             \* seconds until the interval timer of a cycle fires next
    inv,                   \* the cycle invocations, by slot
    tokenEndpointCalled,   \* history: a request to the token endpoint was sent
    tokenGrant,            \* history: the token response cached last, and when
    audit,                 \* the histories of requests and batches are kept
    window                 \* history: the timer calls of each cycle in the current window

vars == <<API_KEY, KEYCLOAK, POLL_INTERVAL, warned, accessToken, accessTokenExpiresAt,
          now, proc, timerLeft, inv, tokenEndpointCalled, tokenGrant, audit, window>>

config == <<API_KEY, KEYCLOAK, POLL_INTERVAL, warned, audit>>

KeycloakFields == {"ISSUER_URL", "REALM", "CLIENT_ID", "CLIENT_SECRET"}

\* the issuers a complete configuration can name: one that answers in any way,
\* one that no server answers at, and one that always answers with a token that lives 60 seconds
Issuers == {"set", "unreachable", "short-lived"}

\* the configurations the model starts from: every field set (with any of the
\* issuers), none, or one missing
KeycloakConfigs ==
    {[f \in KeycloakFields |-> ""]}
        \cup {[f \in KeycloakFields |-> IF f = g THEN "" ELSE "set"] : g \in KeycloakFields}
        \cup {[f \in KeycloakFields |-> IF f = "ISSUER_URL" THEN u ELSE "set"] : u \in Issuers}

\* the configuration check looking at the issuer URL only
KeycloakComplete_IssuerOnly == KEYCLOAK["ISSUER_URL"] # ""

\* KEYCLOAK_ISSUER_URL && KEYCLOAK_REALM && KEYCLOAK_CLIENT_ID && KEYCLOAK_CLIENT_SECRET
KeycloakComplete == \A f \in KeycloakFields : KEYCLOAK[f] # ""

NoGrant == [token |-> Null, expires_in |-> <<>>, at |-> 0]
NoLog == [kind |-> "none", attempt |-> 0]

\* a slot that holds no invocation
FreeSlot ==
    [cycle |-> "none", pc |-> "free", first |-> FALSE, op |-> "none", attempt |-> 0,
     sent |-> 0, auth |-> Null, authSrc |-> "none",
     due |-> <<>>, idx |-> 0, triggered |-> <<>>, lastResult |-> "none",
     log |-> NoLog, settled |-> "none", answer |-> "none", reqs |-> 0, batches |-> 0]

\* the state after the module was loaded, with the histories of requests and
\* batches kept or not
InitWith(kept) ==
    /\ audit = kept
    /\ API_KEY \in {"", StaticKey}
    /\ KEYCLOAK \in KeycloakConfigs
    /\ API_KEY # "" => \A f, g \in KeycloakFields : KEYCLOAK[f] = KEYCLOAK[g]
    /\ \E p \in IntervalConfigs : POLL_INTERVAL = [c \in Cycles |-> IF c = "billing" THEN p[1] ELSE p[2]]
    /\ warned = (API_KEY = "" /\ ~KeycloakComplete)
    /\ accessToken = Null
    /\ accessTokenExpiresAt = 0
    /\ now = 0
    /\ proc = "starting"
    /\ timerLeft = [c \in Cycles |-> 0]
    /\ inv = [i \in Slots |-> FreeSlot]
    /\ tokenEndpointCalled = FALSE
    /\ tokenGrant = NoGrant
    /\ window = [t |-> 0, fired |-> [c \in Cycles |-> 0]]

Init == InitWith(FALSE)

-----------------------------------------------------------------------------
(* Credential provider and request interceptor *)

\* the answers of the token endpoint: the call throws (network error, timeout,
\* error status), or resolves with a body that may lack access_token or
\* expires_in; the provider issues tokA for 60 seconds and tokB otherwise
TokenResponses ==
    {[kind |-> "throw", access_token |-> "", expires_in |-> <<>>]}
        \cup {[kind |-> "body", access_token |-> "", expires_in |-> x] : x \in ExpiresInValues}
        \cup {[kind |-> "body", access_token |-> IF x = <<60>> THEN "tokA" ELSE "tokB",
                expires_in |-> x] : x \in ExpiresInValues}

\* resp && resp.data && resp.data.access_token
HasAccessToken(resp) == resp.kind = "body" /\ resp.access_token # ""

\* what axios.post(tokenUrl, ...) can end with under the configured issuer URL
TokenAnswers ==
    CASE KEYCLOAK["ISSUER_URL"] = "unreachable" ->
             {resp \in TokenResponses : resp.kind = "throw"}
      [] KEYCLOAK["ISSUER_URL"] = "short-lived" ->
             {resp \in TokenResponses : HasAccessToken(resp) /\ resp.expires_in = <<60>>}
      [] OTHER -> TokenResponses

\* const expiresIn = resp.data.expires_in || 300
ExpiresIn(resp) ==
    IF resp.expires_in = <<>> \/ resp.expires_in[1] = 0
    THEN DefaultExpiresIn
    ELSE resp.expires_in[1]

\* accessTokenExpiresAt = Date.now() + expiresIn * 1000 - 30000
ExpiresAt(resp, t) == t + ExpiresIn(resp) * 1000 - ExpirySkewMs

\* the cache check without the comparison with the clock
CachedTokenValid_NoExpiry == accessToken # Null

\* if (accessToken && Date.now() < accessTokenExpiresAt) return accessToken
CachedTokenValid == accessToken # Null /\ now < accessTokenExpiresAt

\* getAccessToken looking at the cache and the token endpoint before the static key
getAccessToken_KeyLast ==
    IF CachedTokenValid THEN [src |-> "cache", token |-> accessToken]
    ELSE IF KeycloakComplete THEN [src |-> "fetch", token |-> Null]
    ELSE IF API_KEY # "" THEN [src |-> "static", token |-> API_KEY]
    ELSE [src |-> "unconfigured", token |-> Null]

\* getAccessToken up to its first await: the credential it returns at once, or
\* "fetch" when it goes on to await the token endpoint
getAccessToken ==
    IF API_KEY # "" THEN [src |-> "static", token |-> API_KEY]
    ELSE IF CachedTokenValid THEN [src |-> "cache", token |-> accessToken]
    ELSE IF ~KeycloakComplete THEN [src |-> "unconfigured", token |-> Null]
    ELSE [src |-> "fetch", token |-> Null]

\* the interceptor after getAccessToken returned: the header is set when the
\* token is truthy, and the request goes out either way
SendRequest(r, token, src) ==
    [r EXCEPT !.pc = "api", !.auth = token, !.authSrc = src, !.sent = @ + 1,
              !.reqs = IF audit THEN @ + 1 ELSE @]

\* the interceptor attaching the token that was cached when the fetch began
getAccessTokenFetched_FromCache(r, token) == SendRequest(r, accessToken, "fetched")

\* getAccessToken after fetchAccessToken returned token: the interceptor sends
\* the request with it
getAccessTokenFetched(r, token) == SendRequest(r, token, "fetched")

\* getAccessToken falling back on the cached token when the fetch failed
getAccessTokenFailed_Stale(r) == SendRequest(r, accessToken, "fetchFailed")

\* getAccessToken letting the failure of fetchAccessToken through: the
\* interceptor rejects, and the attempt fails without a request
getAccessTokenFailed_Throws(r) == [r EXCEPT !.pc = "backoff", !.auth = Null, !.authSrc = "none"]

\* getAccessToken after fetchAccessToken returned null or threw: the catch
\* block returns null, and the interceptor sends the request without a header
getAccessTokenFailed(r) == SendRequest(r, Null, "fetchFailed")

\* axiosClient.get/post: the interceptor runs getAccessToken, then sends
BeginAttempt(r) ==
    LET g == getAccessToken
    IN  IF g.src = "fetch"
        THEN [r EXCEPT !.pc = "token", !.auth = Null, !.authSrc = "fetch"]
        ELSE SendRequest(r, g.token, g.src)

-----------------------------------------------------------------------------
(* Retry wrapper *)

Retries(op) ==
    CASE op = "processPending" -> processPendingRetries
      [] op = "fetchDueSchedules" -> fetchDueSchedulesRetries
      [] op = "triggerSchedule" -> triggerScheduleRetries

\* pRetry after attempts 1..failed have thrown: it makes one more attempt while
\* the failed attempts do not exceed the retries
pRetryRetries(failed, retries) == failed <= retries

\* the attempt whose error pRetry rejects with once attempts 1..failed have thrown
pRetryError(failed) == failed

\* the first attempt of an operation
StartOp(r, op) ==
    BeginAttempt([r EXCEPT !.op = op, !.attempt = 1, !.sent = 0])

-----------------------------------------------------------------------------
(* The two cycles *)

Done(r, log, settled) ==
    [r EXCEPT !.pc = "done", !.log = log, !.settled = settled, !.op = "none",
              !.attempt = 0, !.sent = 0, !.auth = Null, !.authSrc = "none",
              !.reqs = 0, !.batches = 0]

\* runBillingOnce: console.info of the response
runBillingOnceResolved(r, data) ==
    Done(r, [kind |-> "response", attempt |-> data], "resolved")

\* runBillingOnce throwing the error on after logging it
runBillingOnceCatch_Rethrows(r, err) ==
    Done(r, [kind |-> IF err.kind = "status" THEN "responseError" ELSE "noResponse",
             attempt |-> err.attempt], "rejected")

\* runBillingOnce: the catch block, which logs by the shape of the error
runBillingOnceCatch(r, err) ==
    Done(r, [kind |-> IF err.kind = "status" THEN "responseError" ELSE "noResponse",
             attempt |-> err.attempt], "resolved")

\* runSchedulesOnce throwing the error on after logging it
runSchedulesOnceCatch_Rethrows(r, attempt) ==
    Done(r, [kind |-> "schedError", attempt |-> attempt], "rejected")

\* runSchedulesOnce: the outer catch block
runSchedulesOnceCatch(r, attempt) ==
    Done(r, [kind |-> "schedError", attempt |-> attempt], "resolved")

\* triggerSchedule(item.id, item.nextRunAt) for the item at r.idx
StartTrigger(r) ==
    LET item == r.due[r.idx]
    IN  StartOp([r EXCEPT !.triggered =
                     Append(@, [requestId |-> item.id, scheduledAt |-> item.nextRunAt])],
                "triggerSchedule")

\* the for loop of runSchedulesOnce moving on after the item at r.idx
NextItem(r) ==
    IF r.idx < Len(r.due)
    THEN StartTrigger([r EXCEPT !.idx = @ + 1])
    ELSE Done(r, [kind |-> "schedDone", attempt |-> 0], "resolved")

\* runSchedulesOnce: the inner try, after triggerSchedule resolved
TriggerResolved(r) == NextItem([r EXCEPT !.lastResult = "triggered"])

\* runSchedulesOnce without the inner try: the rejection ends the loop in the
\* outer catch block
TriggerCatch_Aborts(r, err) == runSchedulesOnceCatch(r, err.attempt)

\* runSchedulesOnce: the inner catch block, after triggerSchedule rejected
TriggerCatch(r, err) == NextItem([r EXCEPT !.lastResult = "failed"])

\* runSchedulesOnce after fetchDueSchedules resolved with body: for (const item of due || [])
DueResolved(r, body) ==
    IF body.kind = "object"
    THEN runSchedulesOnceCatch(r, 0)
    ELSE NextItem([r EXCEPT !.due = body.items, !.idx = 0])

\* runSchedulesOnce going on, after a failed fetch, with a due list kept from
\* an earlier cycle
OpRejected_UsesKeptList(r, err) ==
    CASE r.op = "processPending" -> runBillingOnceCatch(r, err)
      [] r.op = "fetchDueSchedules" -> NextItem([r EXCEPT !.due = FullDueList, !.idx = 0])
      [] r.op = "triggerSchedule" -> TriggerCatch(r, err)

\* the caller of an operation that pRetry rejected with err
OpRejected(r, err) ==
    CASE r.op = "processPending" -> runBillingOnceCatch(r, err)
      [] r.op = "fetchDueSchedules" -> runSchedulesOnceCatch(r, err.attempt)
      [] r.op = "triggerSchedule" -> TriggerCatch(r, err)

\* an answer outside 2xx rejecting the operation at once, without a retry
AttemptFailed_StatusNotRetried(r, e) ==
    IF e.kind # "status" /\ pRetryRetries(e.attempt, Retries(r.op))
    THEN [r EXCEPT !.pc = "backoff", !.auth = Null, !.authSrc = "none"]
    ELSE OpRejected(r, [e EXCEPT !.attempt = pRetryError(e.attempt)])

\* an attempt failed with error e: pRetry waits and tries again, or gives up
AttemptFailed(r, e) ==
    IF pRetryRetries(e.attempt, Retries(r.op))
    THEN [r EXCEPT !.pc = "backoff", !.auth = Null, !.authSrc = "none"]
    ELSE OpRejected(r, [e EXCEPT !.attempt = pRetryError(e.attempt)])

-----------------------------------------------------------------------------
(* start() and the timers *)

Alive == proc \in {"firstRun", "polling"}

\* a fresh invocation of runBillingOnce or runSchedulesOnce
NewInvocation(c, first) == [FreeSlot EXCEPT !.cycle = c, !.first = first]

FirstOp(c) == IF c = "billing" THEN "processPending" ELSE "fetchDueSchedules"

\* start() registering the timers only after first runs that logged no error
startAfter_OnlyAfterSuccess(newInv) ==
    IF /\ proc = "firstRun"
       /\ \A i \in Slots : newInv[i].first =>
              newInv[i].settled = "resolved" /\ newInv[i].log.kind \in {"response", "schedDone"}
    THEN [proc |-> "polling", timerLeft |-> POLL_INTERVAL]
    ELSE [proc |-> proc, timerLeft |-> timerLeft]

\* start() registering the timers as soon as one of the first runs resolved
startAfter_AnyResolved(newInv) ==
    IF /\ proc = "firstRun"
       /\ \E i \in Slots : newInv[i].first /\ newInv[i].settled = "resolved"
    THEN [proc |-> "polling", timerLeft |-> POLL_INTERVAL]
    ELSE [proc |-> proc, timerLeft |-> timerLeft]

\* start() after an invocation settled: Promise.all rejects with the first
\* rejection (start().catch exits with status 1) and resolves when both first
\* runs have resolved, and then both setInterval calls are made; a rejection of
\* a timer callback is an unhandled rejection
startAfter(newInv) ==
    IF proc = "firstRun"
    THEN IF \E i \in Slots : newInv[i].first /\ newInv[i].settled = "rejected"
         THEN [proc |-> "exited", timerLeft |-> timerLeft]
         ELSE IF \A i \in Slots : newInv[i].first => newInv[i].settled = "resolved"
              THEN [proc |-> "polling", timerLeft |-> POLL_INTERVAL]
              ELSE [proc |-> proc, timerLeft |-> timerLeft]
    ELSE IF \E i \in Slots : newInv[i].settled = "rejected"
         THEN [proc |-> "crashed", timerLeft |-> timerLeft]
         ELSE [proc |-> proc, timerLeft |-> timerLeft]

\* the state after the task that turned inv into newInv
Commit(newInv) ==
    /\ inv' = newInv
    /\ tokenEndpointCalled' =
           (tokenEndpointCalled \/ \E i \in Slots : newInv[i].pc = "token" /\ inv[i].pc # "token")
    /\ proc' = startAfter(newInv).proc
    /\ timerLeft' = startAfter(newInv).timerLeft

\* await initPRetry() resolves: both cycles are called, one after the other,
\* and each runs up to its first wait for I/O
StartOk ==
    /\ proc = "starting"
    /\ inv' = [i \in Slots |->
                  IF i = 1 THEN StartOp(NewInvocation("billing", TRUE), FirstOp("billing"))
                  ELSE IF i = 2 THEN StartOp(NewInvocation("sched", TRUE), FirstOp("sched"))
                  ELSE FreeSlot]
    /\ tokenEndpointCalled' = \E i \in Slots : inv'[i].pc = "token"
    /\ proc' = "firstRun"
    /\ UNCHANGED <<config, accessToken, accessTokenExpiresAt, now, timerLeft, tokenGrant, window>>

\* await initPRetry() rejects: start().catch logs and calls process.exit(1)
StartFails ==
    /\ proc = "starting"
    /\ proc' = "exited"
    /\ UNCHANGED <<config, accessToken, accessTokenExpiresAt, now, timerLeft, inv,
                   tokenEndpointCalled, tokenGrant, window>>

\* the largest value of the modelled clock
Horizon == MaxTicks * ClockStepMs

\* Date.now() moves on. The clock is read only to compare it with the expiry
\* of a cached token and to compute a new expiry from it, so only its
\* distance to accessTokenExpiresAt matters: it is advanced while a valid
\* token is cached that expires before the clock stops
ClockAdvance ==
    /\ Alive
    /\ CachedTokenValid
    /\ accessTokenExpiresAt <= Horizon
    /\ now < Horizon
    /\ now' = now + ClockStepMs
    /\ UNCHANGED <<config, accessToken, accessTokenExpiresAt, proc, timerLeft, inv,
                   tokenEndpointCalled, tokenGrant, window>>

\* the time until the interval timer that is due next fires
MinLeft == CHOOSE d \in {timerLeft[c] : c \in Cycles} : \A c \in Cycles : d <= timerLeft[c]

FreeSlots == {i \in Slots : inv[i].pc \in {"free", "done"}}

\* the slot a new invocation of cycle c is kept in: the slot of its first run
\* when that is free, else the lowest free one
SlotFor(c) ==
    LET own == IF c = "billing" THEN 1 ELSE 2
    IN  IF own \in FreeSlots THEN own
        ELSE CHOOSE k \in FreeSlots : \A j \in FreeSlots : k <= j

\* both timers registered with the interval of the billing cycle
Rearm_SharedInterval(c) ==
    [d \in Cycles |-> IF d = c THEN POLL_INTERVAL["billing"] ELSE timerLeft[d] - MinLeft]

\* the timers after that of cycle c fired: setInterval arms it again with the
\* interval of its cycle, and the other timer is MinLeft nearer
Rearm(c) ==
    [d \in Cycles |-> IF d = c THEN POLL_INTERVAL[c] ELSE timerLeft[d] - MinLeft]

\* history: the time since the timers were registered is cut into windows as
\* long as the billing interval; the call of cycle c is counted in the window
\* it falls in, which is a new one when the time that passed leaves the old
Counted(c) ==
    LET t == window.t + MinLeft
        w == POLL_INTERVAL["billing"]
    IN  IF t > w
        THEN [t |-> t - w, fired |-> [d \in Cycles |-> IF d = c THEN 1 ELSE 0]]
        ELSE [t |-> t, fired |-> [window.fired EXCEPT ![c] = @ + 1]]

\* the interval timer of cycle c is the next to fire, and fires: the cycle is
\* called and runs up to its first wait for I/O
TimerFire(c) ==
    /\ proc = "polling"
    /\ timerLeft[c] = MinLeft
    /\ FreeSlots # {}
    /\ LET i == SlotFor(c)
       IN  /\ inv' = [inv EXCEPT ![i] = StartOp(NewInvocation(c, FALSE), FirstOp(c))]
           /\ tokenEndpointCalled' = (tokenEndpointCalled \/ inv'[i].pc = "token")
    /\ timerLeft' = Rearm(c)
    /\ window' = Counted(c)
    /\ UNCHANGED <<config, accessToken, accessTokenExpiresAt, now, proc, tokenGrant>>

-----------------------------------------------------------------------------
(* Responses *)

\* history: the last answer an invocation received, "token" or "noToken" from
\* the token endpoint, "ok" or "failed" from the API
Answered(r, answer) == [r EXCEPT !.answer = answer]

\* the token endpoint answers invocation i: fetchAccessToken caches a token
\* that is there, getAccessToken turns a throw into null, and the interceptor
\* sends the request
TokenResponse(i) ==
    /\ Alive
    /\ inv[i].pc = "token"
    /\ \E resp \in TokenAnswers :
          IF HasAccessToken(resp)
          THEN /\ accessToken' = resp.access_token
               /\ accessTokenExpiresAt' = ExpiresAt(resp, now)
               /\ tokenGrant' = [token |-> resp.access_token, expires_in |-> resp.expires_in, at |-> now]
               /\ Commit([inv EXCEPT ![i] =
                              Answered(getAccessTokenFetched(@, resp.access_token), "token")])
          ELSE /\ UNCHANGED <<accessToken, accessTokenExpiresAt, tokenGrant>>
               /\ Commit([inv EXCEPT ![i] = Answered(getAccessTokenFailed(@), "noToken")])
    /\ UNCHANGED <<config, now, window>>

\* the error an attempt fails with: a response outside 2xx, no response
\* because the request did not get through, or no response within
\* HTTP_TIMEOUT_MS to a request that the API received and worked on
ErrorKinds == {"status", "network", "timeout"}

\* history: the API got the request of r and answered it with 2xx, or too
\* late; a POST /billing/process-pending it got made it process one batch
\* (the histories of an invocation are kept while it is in flight)
ApiReceived(r, outcome) ==
    IF audit /\ r.op = "processPending" /\ outcome \in {"ok", "timeout"}
    THEN [r EXCEPT !.batches = @ + 1]
    ELSE r

\* the API answers the request of invocation i with 2xx
ApiSuccess(i) ==
    /\ Alive
    /\ inv[i].pc = "api"
    /\ \/ /\ inv[i].op = "processPending"
          /\ Commit([inv EXCEPT ![i] =
                        Answered(runBillingOnceResolved(ApiReceived(@, "ok"), @.attempt), "ok")])
       \/ /\ inv[i].op = "fetchDueSchedules"
          /\ \E body \in DueBodies :
                Commit([inv EXCEPT ![i] = Answered(DueResolved(@, body), "ok")])
       \/ /\ inv[i].op = "triggerSchedule"
          /\ Commit([inv EXCEPT ![i] = Answered(TriggerResolved(@), "ok")])
    /\ UNCHANGED <<config, accessToken, accessTokenExpiresAt, now, tokenGrant, window>>

\* the request of invocation i fails: the attempt throws
ApiFailure(i) ==
    /\ Alive
    /\ inv[i].pc = "api"
    /\ \E k \in ErrorKinds :
          Commit([inv EXCEPT ![i] =
                      Answered(AttemptFailed(ApiReceived(@, k),
                                             [attempt |-> @.attempt, kind |-> k]), "failed")])
    /\ UNCHANGED <<config, accessToken, accessTokenExpiresAt, now, tokenGrant, window>>

\* the backoff delay of pRetry is over: the next attempt starts
BackoffElapsed(i) ==
    /\ Alive
    /\ inv[i].pc = "backoff"
    /\ Commit([inv EXCEPT ![i] = BeginAttempt([@ EXCEPT !.attempt = @ + 1])])
    /\ UNCHANGED <<config, accessToken, accessTokenExpiresAt, now, tokenGrant, window>>

Next ==
    \/ StartOk
    \/ StartFails
    \/ ClockAdvance
    \/ \E c \in Cycles : TimerFire(c)
    \/ \E i \in Slots : TokenResponse(i)
    \/ \E i \in Slots : ApiSuccess(i)
    \/ \E i \in Slots : ApiFailure(i)
    \/ \E i \in Slots : BackoffElapsed(i)

Spec == Init /\ [][Next]_vars

\* every HTTP call returns or times out, every timer fires
Fairness ==
    /\ WF_vars(StartOk \/ StartFails)
    /\ \A i \in Slots :
          /\ WF_vars(TokenResponse(i))
          /\ WF_vars(ApiSuccess(i) \/ ApiFailure(i))
          /\ WF_vars(BackoffElapsed(i))
    /\ \A c \in Cycles : WF_vars(TimerFire(c))

\* every configuration but the one whose issuer answers in any way: a static
\* key, missing client credentials, an issuer that does not answer, and an
\* issuer of 60-second tokens. The token cache takes no part in start() or in
\* the timers, and the behaviours to search for fair cycles stay few
FairInit == Init /\ (API_KEY = "" => KEYCLOAK["ISSUER_URL"] # "set")

FairSpec == FairInit /\ [][Next]_vars /\ Fairness

\* the histories of requests and batches kept, in the configuration in which
\* requests wait for a token of the issuer of 60-second tokens
AuditInit == InitWith(TRUE) /\ KEYCLOAK["ISSUER_URL"] = "short-lived"

AuditSpec == AuditInit /\ [][Next]_vars /\ Fairness

-----------------------------------------------------------------------------
(* Properties *)

\* slot i took a step that began an attempt: the interceptor ran getAccessToken
AttemptBegun(i) ==
    /\ inv'[i] # inv[i]
    /\ inv[i].pc # "token"
    /\ inv'[i].pc \in {"token", "api"}

\* C1: with API_KEY set the token endpoint is never called, the cache keeps
\* its initial value, and every request carries the static key, whatever the
\* KEYCLOAK_* settings are.
C1_StaticKeyNeverFetches ==
    API_KEY # "" =>
        /\ ~tokenEndpointCalled
        /\ accessToken = "null"
        /\ accessTokenExpiresAt = 0
        /\ \A i \in Slots :
              /\ inv[i].pc # "token"
              /\ inv[i].pc = "api" => inv[i].auth = API_KEY

\* C1 witness: with a static key and complete client credentials, a billing
\* retry and a schedule trigger are in flight in ticks after the first run.
C1_Witness ==
    /\ API_KEY # ""
    /\ \A f \in KeycloakFields : KEYCLOAK[f] # ""
    /\ proc = "polling"
    /\ \E i, j \in Slots :
          /\ inv[i].pc = "api" /\ inv[i].op = "processPending" /\ inv[i].attempt > 1
          /\ inv[j].pc = "api" /\ inv[j].op = "triggerSchedule"
          /\ inv[i].auth = "static-key" /\ inv[j].auth = "static-key"

\* C2: with complete client credentials and no API_KEY, a request that starts
\* while a token is cached and now < accessTokenExpiresAt sends no token
\* request and carries the cached token; a request that starts with no token
\* cached or with now >= accessTokenExpiresAt starts a token request.
C2_TokenReusedUntilExpiry ==
    [][\A i \in Slots :
          (/\ API_KEY = ""
           /\ \A f \in KeycloakFields : KEYCLOAK[f] # ""
           /\ AttemptBegun(i))
          => IF accessToken # "null" /\ now < accessTokenExpiresAt
             THEN /\ inv'[i].pc = "api"
                  /\ inv'[i].auth = accessToken
                  /\ UNCHANGED <<accessToken, accessTokenExpiresAt>>
             ELSE inv'[i].pc = "token" /\ tokenEndpointCalled']_vars

\* C2 witness: one request went out with the cached token before it expired,
\* and a request made after the expiry waits for the token endpoint.
C2_Witness ==
    /\ accessToken # "null"
    /\ now >= accessTokenExpiresAt
    /\ \E i, j \in Slots :
          /\ inv[i].pc = "api" /\ inv[i].authSrc = "cache" /\ inv[i].auth = accessToken
          /\ inv[j].pc = "token"

\* the lifetime a token response declares, 300 when it declares none
DeclaredLifetime(grant) == IF grant.expires_in = <<>> THEN 300 ELSE grant.expires_in[1]

\* C3: after every successful token fetch the cached expiry is
\* fetch-time + expires_in*1000 - 30000 ms, with expires_in = 300 when the
\* response carries none.
C3_ExpiryIsLifetimeMinusSkew ==
    tokenGrant.token # "null" =>
        accessTokenExpiresAt = tokenGrant.at + DeclaredLifetime(tokenGrant) * 1000 - 30000

\* C4: a token request that throws or brings no access_token never raises to
\* the caller: the API request is still sent, without an Authorization header,
\* in the same attempt of the retry wrapper, and nothing settles or exits.
C4_CredentialFailureNotFatal ==
    [][\A i \in Slots :
          (inv[i].pc = "token" /\ inv'[i].answer = "noToken")
          => /\ inv'[i].pc = "api"
             /\ inv'[i].auth = "null"
             /\ inv'[i].sent = inv[i].sent + 1
             /\ inv'[i].attempt = inv[i].attempt
             /\ inv'[i].op = inv[i].op
             /\ inv'[i].settled = "none"
             /\ proc' = proc]_vars

\* C4 witness: the first attempt of an operation has its request in flight
\* without a header after the token endpoint gave no token.
C4_Witness ==
    \E i \in Slots :
        /\ inv[i].pc = "api"
        /\ inv[i].answer = "noToken"
        /\ inv[i].auth = "null"
        /\ inv[i].attempt = 1
        /\ inv[i].sent = 1

\* C5: one billing cycle sends at most 4 requests to /billing/process-pending,
\* one due-list fetch at most 3, triggering one item at most 3, each attempt
\* sends at most one request, a retry wait only follows a failed attempt, and
\* after a 2xx answer the operation makes no further attempt.
C5_RetriesBounded ==
    \A i \in Slots :
        /\ inv[i].op = "processPending" => inv[i].sent <= 4 /\ inv[i].attempt <= 4
        /\ inv[i].op = "fetchDueSchedules" => inv[i].sent <= 3 /\ inv[i].attempt <= 3
        /\ inv[i].op = "triggerSchedule" => inv[i].sent <= 3 /\ inv[i].attempt <= 3
        /\ inv[i].sent <= inv[i].attempt
        /\ inv[i].pc = "backoff" => inv[i].answer = "failed"
        /\ inv[i].answer = "ok" =>
              \/ inv[i].pc = "done"
              \/ inv[i].op = "triggerSchedule" /\ inv[i].attempt = 1

\* C5 witness: the fourth request of a billing cycle and the third request
\* for one schedule item are in flight.
C5_Witness ==
    \E i, j \in Slots :
        /\ inv[i].op = "processPending" /\ inv[i].pc = "api" /\ inv[i].sent = 4
        /\ inv[j].op = "triggerSchedule" /\ inv[j].pc = "api" /\ inv[j].sent = 3

\* C6: the billing cycle logs the response of the attempt that got a 2xx answer
\* (the third, after two failures); it waits and retries after a failure of
\* attempts 1 to 3; after the failure of attempt 4 it logs that error, resolves,
\* and the process and its timers stay as they are.
C6_BillingReportsOutcome ==
    [][\A i \in Slots :
          (inv[i].op = "processPending" /\ inv[i].pc = "api" /\ inv'[i] # inv[i])
          => \/ /\ inv'[i].answer = "ok"
                /\ inv'[i].pc = "done"
                /\ inv'[i].log = [kind |-> "response", attempt |-> inv[i].attempt]
                /\ inv'[i].settled = "resolved"
                /\ proc' \in {"firstRun", "polling"}
             \/ /\ inv'[i].answer = "failed"
                /\ inv[i].attempt < 4
                /\ inv'[i].pc = "backoff"
                /\ inv'[i].log.kind = "none"
                /\ proc' = proc
             \/ /\ inv'[i].answer = "failed"
                /\ inv[i].attempt = 4
                /\ inv'[i].pc = "done"
                /\ inv'[i].log.kind \in {"responseError", "noResponse"}
                /\ inv'[i].settled = "resolved"
                /\ proc' \in {"firstRun", "polling"}
                /\ proc = "polling" => proc' = "polling" /\ timerLeft' = timerLeft]_vars

\* C6 witness: of two billing invocations of later ticks, one logged the
\* response of its third attempt and the other the error of its fourth, and
\* the process is polling.
C6_Witness ==
    /\ proc = "polling"
    /\ \E i, j \in Slots :
          /\ inv[i].cycle = "billing" /\ ~inv[i].first
          /\ inv[i].log = [kind |-> "response", attempt |-> 3]
          /\ inv[j].cycle = "billing" /\ ~inv[j].first
          /\ inv[j].log = [kind |-> "noResponse", attempt |-> 4]

\* the attempts an operation is allowed: the first and its retries
AllowedAttempts(op) ==
    CASE op = "processPending" -> 4
      [] op = "fetchDueSchedules" -> 3
      [] op = "triggerSchedule" -> 3

\* C7: an error reaches the caller of processPending, fetchDueSchedules or
\* triggerSchedule only when the last allowed attempt has failed, and it is
\* the error of that attempt.
C7_LastErrorPropagates ==
    [][\A i \in Slots :
          (inv[i].pc = "api" /\ inv'[i].answer = "failed" /\ inv'[i] # inv[i])
          => IF inv[i].attempt < AllowedAttempts(inv[i].op)
             THEN /\ inv'[i].pc = "backoff"
                  /\ inv'[i].log = inv[i].log
                  /\ inv'[i].lastResult = inv[i].lastResult
                  /\ inv'[i].op = inv[i].op
             ELSE /\ inv[i].attempt = AllowedAttempts(inv[i].op)
                  /\ inv[i].op = "processPending" =>
                        /\ inv'[i].log.kind \in {"responseError", "noResponse"}
                        /\ inv'[i].log.attempt = inv[i].attempt
                  /\ inv[i].op = "fetchDueSchedules" =>
                        inv'[i].log = [kind |-> "schedError", attempt |-> inv[i].attempt]
                  /\ inv[i].op = "triggerSchedule" => inv'[i].lastResult = "failed"]_vars

\* C7 witness: a scheduling cycle logged the error of the third attempt to
\* fetch the due list while a billing cycle logged the error of its fourth.
C7_Witness ==
    \E i, j \in Slots :
        /\ inv[i].log = [kind |-> "schedError", attempt |-> 3]
        /\ inv[j].log = [kind |-> "responseError", attempt |-> 4]

\* C8: a scheduling cycle has called triggerSchedule once for each of the
\* first idx items of its due list, in list order, with the item's id and
\* nextRunAt, and once the list is there it ends only after the last item.
C8_EveryItemTriggeredOnce ==
    \A i \in Slots :
        inv[i].cycle = "sched" =>
            /\ inv[i].idx <= Len(inv[i].due)
            /\ inv[i].triggered =
                   [k \in 1..inv[i].idx |->
                       [requestId |-> inv[i].due[k].id, scheduledAt |-> inv[i].due[k].nextRunAt]]
            /\ (inv[i].pc = "done" /\ inv[i].due # <<>>) =>
                   /\ Len(inv[i].triggered) = Len(inv[i].due)
                   /\ inv[i].log.kind = "schedDone"

\* C8 witness: of a due list of 3 items the trigger of the 2nd failed on all
\* its attempts, and the 1st and the 3rd have been triggered.
C8_Witness ==
    \E i \in Slots :
        /\ inv[i].cycle = "sched"
        /\ Len(inv[i].due) = 3
        /\ inv[i].idx = 3
        /\ inv[i].lastResult = "failed"
        /\ inv[i].op = "triggerSchedule"
        /\ Len(inv[i].triggered) = 3
        /\ inv[i].triggered[1].requestId = inv[i].due[1].id
        /\ inv[i].triggered[3].requestId = inv[i].due[3].id

\* C9: no cycle invocation rejects, the process never dies of an unhandled
\* rejection, and it has exited with status 1 only if initPRetry failed, before
\* any cycle ran.
C9_FailedCycleNeverTerminates ==
    /\ proc # "crashed"
    /\ proc = "exited" => \A i \in Slots : inv[i].pc = "free"
    /\ \A i \in Slots :
          /\ inv[i].settled # "rejected"
          /\ inv[i].pc = "done" => inv[i].settled = "resolved"

\* C9 witness: in a later tick a billing cycle ended with the error of its
\* fourth attempt and a scheduling cycle with a failed due-list fetch, and the
\* process is polling.
C9_Witness ==
    /\ proc = "polling"
    /\ \E i, j \in Slots :
          /\ ~inv[i].first /\ inv[i].cycle = "billing" /\ inv[i].pc = "done"
          /\ inv[i].log.kind \in {"responseError", "noResponse"}
          /\ ~inv[j].first /\ inv[j].cycle = "sched" /\ inv[j].pc = "done"
          /\ inv[j].log.kind = "schedError"

\* C10: when start() gets past initPRetry both cycles are called in the same
\* task and each has begun its first attempt; the timers are registered once
\* both first runs are over; and from then on the timer of each cycle fires
\* again and again, unless the process exited at startup.
C10_BothCyclesRunForever ==
    /\ [][(proc = "starting" /\ proc' = "firstRun") =>
             \A c \in Cycles : \E i \in Slots :
                 /\ inv'[i].cycle = c
                 /\ inv'[i].attempt = 1
                 /\ inv'[i].pc \in {"token", "api"}]_vars
    /\ \A c \in Cycles : <>(proc = "exited") \/ []<><<TimerFire(c)>>_vars

\* C10 witness: after first runs that both ended in an error, a timer-started
\* invocation of each cycle is in flight.
C10_Witness ==
    /\ proc = "polling"
    /\ \E i, j \in Slots :
          /\ inv[i].cycle = "billing" /\ ~inv[i].first /\ inv[i].pc = "api"
          /\ inv[j].cycle = "sched" /\ ~inv[j].first /\ inv[j].pc = "api"

\* C11: the cycles never block one another: once the first run of a cycle is
\* over, the periodic timer of that cycle is registered, whatever the other
\* cycle is still doing.
C11_CyclesNeverBlock ==
    \A c \in Cycles :
        (\E i \in Slots : inv[i].cycle = c /\ inv[i].first /\ inv[i].pc = "done")
        => proc = "polling"

\* C13: with no API_KEY and one of the four client-credentials settings
\* missing, the startup warning was written, the token endpoint is never
\* called, and every attempt sends its request, without an Authorization
\* header.
C13_UnconfiguredIsUnauthenticated ==
    (API_KEY = "" /\ \E f \in KeycloakFields : KEYCLOAK[f] = "") =>
        /\ warned
        /\ ~tokenEndpointCalled
        /\ \A i \in Slots :
              /\ inv[i].pc # "token"
              /\ inv[i].pc \in {"api", "backoff"} => inv[i].sent = inv[i].attempt
              /\ inv[i].pc = "api" => inv[i].auth = "null"

\* C13 witness: only the realm is missing, the warning was written, and the
\* first request of the first billing run is out without a header.
C13_Witness ==
    /\ API_KEY = ""
    /\ KEYCLOAK["REALM"] = "" /\ KEYCLOAK["ISSUER_URL"] # "" /\ KEYCLOAK["CLIENT_SECRET"] # ""
    /\ warned
    /\ \E i \in Slots :
          /\ inv[i].first /\ inv[i].pc = "api" /\ inv[i].op = "processPending"
          /\ inv[i].attempt = 1 /\ inv[i].sent = 1 /\ inv[i].auth = "null"

\* C15: an attempt fails when the call throws or is answered outside 2xx, and
\* both failures are treated alike: while attempts remain the operation waits
\* and retries, without progress of the cycle; the error of an answer outside
\* 2xx carries the response; only a 2xx answer ends the operation with
\* success and hands the body to the caller.
C15_Non2xxIsFailedAttempt ==
    /\ [](\A i \in Slots :
             inv[i].pc = "api" =>
                 LET st == AttemptFailed(inv[i], [attempt |-> inv[i].attempt, kind |-> "status"])
                     th == AttemptFailed(inv[i], [attempt |-> inv[i].attempt, kind |-> "network"])
                 IN  /\ st.pc = th.pc /\ st.op = th.op /\ st.attempt = th.attempt
                     /\ st.idx = th.idx /\ st.lastResult = th.lastResult
                     /\ st.settled = th.settled
                     /\ st.log.kind = "responseError" <=> th.log.kind = "noResponse")
    /\ [][\A i \in Slots :
             (inv[i].pc = "api" /\ inv'[i] # inv[i])
             => \/ /\ inv'[i].answer = "ok"
                   /\ inv[i].op = "processPending" =>
                         inv'[i].log = [kind |-> "response", attempt |-> inv[i].attempt]
                   /\ inv[i].op = "fetchDueSchedules" =>
                         inv'[i].log.kind \in {"none", "schedDone", "schedError"}
                   /\ inv[i].op = "triggerSchedule" => inv'[i].lastResult = "triggered"
                \/ /\ inv'[i].answer = "failed"
                   /\ inv'[i].log.kind \notin {"response", "schedDone"} \/ inv[i].op = "triggerSchedule"
                   /\ inv[i].attempt < AllowedAttempts(inv[i].op) =>
                         /\ inv'[i].pc = "backoff"
                         /\ inv'[i].op = inv[i].op
                         /\ inv'[i].attempt = inv[i].attempt
                         /\ inv'[i].idx = inv[i].idx
                         /\ inv'[i].log = inv[i].log
                   /\ inv[i].attempt = AllowedAttempts(inv[i].op) =>
                         IF inv[i].op = "triggerSchedule"
                         THEN inv'[i].lastResult = "failed"
                         ELSE inv'[i].log.kind \in {"responseError", "noResponse", "schedError"}]_vars

\* C15 witness: a billing cycle ended with the error of an answer outside 2xx
\* to its fourth attempt, after three failed attempts that were retried.
C15_Witness ==
    \E i \in Slots :
        /\ inv[i].cycle = "billing"
        /\ inv[i].pc = "done"
        /\ inv[i].answer = "failed"
        /\ inv[i].log = [kind |-> "responseError", attempt |-> 4]

\* C16: when both cycles fetch a token at the same time the fetch that
\* completes last wins; the cached token and the cached expiry always come
\* from the same token response, and a request whose fetch completes carries
\* the token of its own fetch, while no other request in flight is changed.
C16_ConcurrentRefreshIsConsistent ==
    /\ [](/\ accessToken = tokenGrant.token
          /\ accessToken # "null" =>
                accessTokenExpiresAt =
                    tokenGrant.at - 30000
                    + 1000 * (IF tokenGrant.expires_in \in {<<>>, <<0>>}
                              THEN 300 ELSE tokenGrant.expires_in[1]))
    /\ [][\A i \in Slots :
             (inv[i].pc = "token" /\ inv'[i].answer = "token")
             => /\ inv'[i].pc = "api"
                /\ inv'[i].auth = tokenGrant'.token
                /\ inv'[i].auth = accessToken'
                /\ tokenGrant'.at = now
                /\ \A j \in Slots \ {i} : inv'[j] = inv[j]]_vars

\* C16 witness: both first requests found no token and fetched one; the
\* requests are out with the two different tokens of their own fetches, and
\* the cache holds the token and the expiry of the fetch that completed last.
C16_Witness ==
    /\ accessToken = "tokB"
    /\ accessTokenExpiresAt = 270000
    /\ \E i, j \in Slots :
          /\ inv[i].first /\ inv[i].pc = "api" /\ inv[i].authSrc = "fetched" /\ inv[i].auth = "tokA"
          /\ inv[j].first /\ inv[j].pc = "api" /\ inv[j].authSrc = "fetched" /\ inv[j].auth = "tokB"
          /\ inv[i].attempt = 1 /\ inv[j].attempt = 1

\* C17: when the third attempt to fetch the due list fails, the scheduling
\* cycle ends at once, resolved, without having triggered any item; it stays
\* ended, and every invocation a timer starts begins with a first attempt of
\* its own fetch and with no list and no triggered item.
C17_FailedFetchTriggersNothing ==
    /\ [][\A i \in Slots :
             (/\ inv[i].op = "fetchDueSchedules"
              /\ inv[i].pc = "api"
              /\ inv[i].attempt = 3
              /\ inv'[i].answer = "failed"
              /\ inv'[i] # inv[i])
             => /\ inv'[i].pc = "done"
                /\ inv'[i].settled = "resolved"
                /\ inv'[i].log = [kind |-> "schedError", attempt |-> 3]
                /\ inv'[i].triggered = <<>>
                /\ proc' \in {"firstRun", "polling"}]_vars
    /\ [](\A i \in Slots :
             (inv[i].log.kind = "schedError" /\ inv[i].log.attempt = 3)
             => inv[i].pc = "done" /\ inv[i].triggered = <<>> /\ inv[i].idx = 0)
    /\ [][\A i \in Slots :
             (inv[i].pc \in {"free", "done"} /\ inv'[i].pc \notin {"free", "done"}
              /\ inv'[i].cycle = "sched")
             => /\ inv'[i].op = "fetchDueSchedules"
                /\ inv'[i].attempt = 1
                /\ inv'[i].due = <<>>
                /\ inv'[i].triggered = <<>>
                /\ inv'[i].log.kind = "none"]_vars

\* C17 witness: a scheduling cycle that a timer started has ended after three
\* failed attempts to fetch the due list, with nothing triggered, and the
\* process is polling.
C17_Witness ==
    /\ proc = "polling"
    /\ \E i \in Slots :
          /\ inv[i].cycle = "sched" /\ ~inv[i].first
          /\ inv[i].pc = "done" /\ inv[i].answer = "failed"
          /\ inv[i].log = [kind |-> "schedError", attempt |-> 3]
          /\ inv[i].triggered = <<>>

\* C18: a request gets the cached token only at a moment when a token is
\* cached and now < accessTokenExpiresAt; and when the token endpoint gives no
\* token while a token is cached whose expiry has passed, the request goes out
\* without a token and the cache keeps its token and its expiry.
C18_ExpiredTokenNeverHandedOut ==
    [][\A i \in Slots :
          /\ (inv'[i] # inv[i] /\ inv'[i].pc = "api" /\ inv'[i].authSrc = "cache")
             => /\ accessToken # "null"
                /\ now < accessTokenExpiresAt
                /\ inv'[i].auth = accessToken
          /\ (/\ inv[i].pc = "token"
              /\ inv'[i].answer = "noToken"
              /\ accessToken # "null"
              /\ now >= accessTokenExpiresAt)
             => /\ inv'[i].pc = "api"
                /\ inv'[i].auth = "null"
                /\ accessToken' = accessToken
                /\ accessTokenExpiresAt' = accessTokenExpiresAt]_vars

\* C18 witness: a token is cached whose expiry has passed, the refresh a
\* request asked for failed, and the request is out without a token.
C18_Witness ==
    /\ accessToken # "null"
    /\ now >= accessTokenExpiresAt
    /\ \E i \in Slots :
          /\ inv[i].pc = "api"
          /\ inv[i].answer = "noToken"
          /\ inv[i].authSrc = "fetchFailed"
          /\ inv[i].auth = "null"

\* the invocations of cycle c that wait for an answer or for a retry
Running(c) == {i \in Slots : inv[i].cycle = c /\ inv[i].pc \in {"token", "api", "backoff"}}

\* C19: at most one invocation of the same cycle is in flight at any time.
C19_NoOverlapOfSameCycle ==
    \A c \in Cycles : Cardinality(Running(c)) <= 1

\* C19 amended: until both first runs have ended at most one invocation of
\* each cycle is in flight, and no invocation started by a timer exists while
\* a first run is in flight; once started, an invocation never changes the
\* record of another one, so overlapping invocations each work on the list
\* they fetched.
C19_OverlapOnlyBetweenTicks ==
    /\ [](proc = "firstRun" => \A c \in Cycles : Cardinality(Running(c)) <= 1)
    /\ [](\A i, j \in Slots :
             (inv[i].pc # "free" /\ ~inv[i].first /\ inv[j].first) => inv[j].pc = "done")
    /\ [][\A i, j \in Slots :
             (proc # "starting" /\ i # j /\ inv'[i] # inv[i]) => inv'[j] = inv[j]]_vars

\* C19 witness: two scheduling invocations started by timers are in flight
\* and both are triggering the same item of the due lists they fetched.
C19_Witness ==
    /\ proc = "polling"
    /\ \E i, j \in Slots :
          /\ i # j
          /\ inv[i].cycle = "sched" /\ inv[j].cycle = "sched"
          /\ ~inv[i].first /\ ~inv[j].first
          /\ inv[i].op = "triggerSchedule" /\ inv[j].op = "triggerSchedule"
          /\ inv[i].pc = "api" /\ inv[j].pc \in {"api", "backoff"}
          /\ inv[i].idx = inv[j].idx
          /\ inv[i].due = inv[j].due

\* C12: with a billing interval of 60 s and a scheduling interval of 30 s, in
\* every window of 60 s after the timers were registered the timers call the
\* billing cycle once and the scheduling cycle twice.
C12_TwoSchedulingTicksPerBillingTick ==
    (POLL_INTERVAL["billing"] = 60 /\ POLL_INTERVAL["sched"] = 30) =>
        /\ window.fired["billing"] <= 1
        /\ window.fired["sched"] <= 2
        /\ (window.t = 60 /\ \A c \in Cycles : timerLeft[c] > 0) =>
               window.fired["billing"] = 1 /\ window.fired["sched"] = 2
        /\ (window.t < 60 /\ \A c \in Cycles : timerLeft[c] > 0) =>
               window.fired["billing"] = 0 /\ 30 * window.fired["sched"] = window.t

\* C12 witness: a window of 60 s is over in which the billing timer fired once
\* and the scheduling timer twice.
C12_Witness ==
    /\ POLL_INTERVAL["billing"] = 60 /\ POLL_INTERVAL["sched"] = 30
    /\ proc = "polling"
    /\ window.t = 60
    /\ \A c \in Cycles : timerLeft[c] > 0
    /\ window.fired["billing"] = 1
    /\ window.fired["sched"] = 2

\* C14: one invocation of the billing cycle makes the API process at most one
\* batch, also when its attempts are retried; a scheduling invocation handles
\* one due list, and an invocation starts with nothing left by an earlier one.
C14_OneBatchPerTick ==
    \A i \in Slots :
        /\ inv[i].batches <= 1
        /\ inv[i].op = "fetchDueSchedules" => inv[i].due = <<>> /\ inv[i].triggered = <<>>

\* the API requests an invocation may send in all: 4 for a billing cycle,
\* 3 for the due list and 3 for each item of it for a scheduling cycle (for
\* each item of the longest list while the list is not there yet)
Budget(r) ==
    IF r.cycle = "billing" THEN 4
    ELSE IF r.op = "fetchDueSchedules" THEN 3 + 3 * MaxDue
    ELSE 3 + 3 * Len(r.due)

\* a measure of what an invocation in flight can still do: the requests left
\* of its budget, and within one request the steps from the token request to
\* the wait for a retry
Rank(r) ==
    3 * (Budget(r) - r.reqs)
        + (CASE r.pc = "api" -> 2 [] r.pc = "backoff" -> 1 [] OTHER -> 0)

\* C20: a billing invocation sends at most 4 API requests and a scheduling
\* invocation over a due list of n items at most 3 + 3n; a token request is
\* followed by the API request it was made for, so each API request has at
\* most one; and every step of an invocation in flight ends it or lowers a
\* measure that is never negative, so the invocation ends when every call
\* returns.
C20_InvocationsEnd ==
    /\ [](\A i \in Slots :
             /\ inv[i].cycle = "billing" => inv[i].reqs <= 4
             /\ inv[i].cycle = "sched" => inv[i].reqs <= 3 + 3 * Len(inv[i].due)
             /\ inv[i].pc \in {"token", "api", "backoff"} => Rank(inv[i]) >= 0)
    /\ [][\A i \in Slots :
             (inv[i].pc = "token" /\ inv'[i] # inv[i])
             => inv'[i].pc = "api" /\ inv'[i].reqs = inv[i].reqs + 1]_vars
    /\ [][\A i \in Slots :
             (inv[i].pc \in {"token", "api", "backoff"} /\ inv'[i] # inv[i])
             => \/ inv'[i].pc = "done"
                \/ /\ inv'[i].pc \in {"token", "api", "backoff"}
                   /\ inv'[i].cycle = inv[i].cycle
                   /\ Rank(inv'[i]) < Rank(inv[i])]_vars

\* C20 witness: the twelfth request of a scheduling invocation over a due
\* list of 3 items and the fourth request of a billing invocation are out,
\* each after a token request of its own.
C20_Witness ==
    \E i, j \in Slots :
        /\ inv[i].cycle = "sched" /\ Len(inv[i].due) = 3
        /\ inv[i].pc = "api" /\ inv[i].reqs = 12
        /\ inv[i].authSrc = "fetched"
        /\ inv[j].cycle = "billing"
        /\ inv[j].pc = "api" /\ inv[j].reqs = 4
        /\ inv[j].authSrc = "fetched"

====
